---------------------------- MODULE Spec2Model ----------------------------
(***************************************************************************)
(* A model of baloo's WeldObject (baloo/weld/pyweld/weldobject.py): the    *)
(* lazy expression node, the process-wide literal registry, the flattening *)
(* of the dependency graph into let statements, and the evaluate pipeline. *)
(*                                                                         *)
(* Python strings are sequences of character codes, so that "%d"           *)
(* formatting, list.sort() on text and sorted() on names are modelled by   *)
(* what they do on text.                                                   *)
(***************************************************************************)
EXTENDS Naturals, Sequences, FiniteSets, TLC

VARIABLES
    objs,        \* the WeldObjects constructed so far, in construction order
    _var_num,    \* WeldObject._var_num
    _obj_id,     \* WeldObject._obj_id
    _registry,   \* WeldObject._registry: canonical form -> name
    ev,          \* the evaluate call in progress (its locals and position)
    ret,         \* what the last step returned or raised, when it was a call
    issued,      \* history: <<canonical form, name>> of every update(literal)
    threads      \* per thread: its position in __init__ or update, its locals

vars == <<objs, _var_num, _obj_id, _registry, ev, ret, issued, threads>>

---------------------------------------------------------------------------
(* Bounds of the model *)

MaxObjs == 3        \* nodes constructed when graphs are flattened
MaxDeps == 3        \* dependencies entries over all nodes
MaxCtxObjs == 2     \* nodes constructed when literals are registered
MaxVarNum == 4      \* names handed out when generate_input_name is called
MaxFrameDeps == 1   \* dependencies entries when nodes are also evaluated
MaxThreadOps == 3   \* calls each thread makes

(* _obj_id values the process starts a checked run with: the class         *)
(* attribute's initial 100, and 998, the counter after 898 constructions   *)
(* whose nodes are no longer referenced (so that ids cross from three to   *)
(* four digits within MaxObjs constructions).                              *)
StartIds == {100, 998}

---------------------------------------------------------------------------
(* Text *)

\* "%d" % n
RECURSIVE Dec(_)
Dec(n) == IF n < 10 THEN <<48 + n>> ELSE Dec(n \div 10) \o <<48 + (n % 10)>>

\* Python's str < str: code point by code point, a proper prefix is smaller
RECURSIVE StrLess(_, _)
StrLess(a, b) ==
    IF b = <<>> THEN FALSE
    ELSE IF a = <<>> THEN TRUE
    ELSE IF Head(a) # Head(b) THEN Head(a) < Head(b)
    ELSE StrLess(Tail(a), Tail(b))

\* sep.join(parts)
RECURSIVE Join(_, _)
Join(sep, parts) ==
    IF parts = <<>> THEN <<>>
    ELSE IF Len(parts) = 1 THEN parts[1]
    ELSE parts[1] \o sep \o Join(sep, Tail(parts))

\* sorted(S) for a set of strings
RECURSIVE Sorted(_)
Sorted(S) ==
    IF S = {} THEN <<>>
    ELSE LET m == CHOOSE x \in S : \A y \in S \ {x} : StrLess(x, y)
         IN  <<m>> \o Sorted(S \ {m})

\* list.sort() of a list of strings
ListSort(l) == SortSeq(l, StrLess)

Contains(s, p) == \E k \in 0..(Len(s) - Len(p)) : SubSeq(s, k + 1, k + Len(p)) = p

Range(f) == {f[x] : x \in DOMAIN f}


---------------------------------------------------------------------------
(* Literal text used by the code's format strings *)

S_obj   == <<111, 98, 106>>                 \* "obj"
S_inp   == <<95, 105, 110, 112>>            \* "_inp"
S_let   == <<108, 101, 116, 32>>            \* "let "
S_eq    == <<32, 61, 32, 40>>               \* " = ("
S_close == <<41, 59>>                       \* ");"
S_nl    == <<10>>                           \* "\n"
S_sp    == <<32>>                           \* " "
S_bar   == <<124>>                          \* "|"
S_comma == <<44, 32>>                       \* ", "
S_colon == <<58, 32>>                       \* ": "

---------------------------------------------------------------------------
(* The node graph *)

Ids == 1..Len(objs)

\* weld_code fragments a client assigns: the initial "" and "x"
Codes == {<<>>, <<120>>}

EmptyDict == <<>>

\* evaluate's locals: func, the header's (name, type) list, the Args fields,
\* the values set on weld_args, the result buffer; the err.code() of the
\* compile and of the run; and how often this call has compiled, run, read
\* the result buffer and called the decoder
NoEval == [pc |-> "idle", target |-> 0, decode |-> FALSE, restype |-> "",
           func |-> <<>>, header |-> <<>>, fields |-> <<>>, assigned |-> <<>>,
           data |-> <<>>, cstatus |-> 0, rstatus |-> 0,
           compiles |-> 0, runs |-> 0, reads |-> 0, decodes |-> 0]

NoValue == [decoded |-> FALSE, restype |-> "", data |-> <<>>]

NoLiteral == [ty |-> "", n |-> 0, s |-> <<>>]

\* a call's outcome: the text or value returned, or the message raised; for
\* evaluate also the program text, the diagnostic and the result buffer the
\* external calls were given or gave, and the call's counts; for update the
\* literal or the node it was given; for generate the iterations of the
\* while loop
NoRet == [op |-> "none", target |-> 0, outcome |-> "ok", text |-> <<>>,
          value |-> NoValue, header |-> <<>>, decode |-> FALSE,
          restype |-> "", func |-> <<>>, diag |-> <<>>, data |-> <<>>,
          cstatus |-> 0, rstatus |-> 0,
          compiles |-> 0, runs |-> 0, reads |-> 0, decodes |-> 0,
          arg |-> NoLiteral, src |-> 0, pops |-> 0]

\* WeldObject.__init__ (the encoder and decoder are the injected ones)
NewObj(n) == [obj_id |-> S_obj \o Dec(n), weld_code |-> <<>>,
              dependencies |-> EmptyDict, context |-> EmptyDict,
              argtypes |-> EmptyDict]

Idle == ev.pc = "idle"

\* the threads of the process that call into the front-end
ThreadIds == {1, 2}

\* a thread outside any call: pc is its position, ops the calls it has made,
\* target, value, name and tmp the locals of the call in progress
NoThread == [pc |-> "idle", ops |-> 0, target |-> 0, value |-> NoLiteral,
             name |-> <<>>, tmp |-> 0]

\* a variant that leaves the counter where it was
ConstructNoAdvance(max) ==
    /\ Idle
    /\ Len(objs) < max
    /\ objs' = Append(objs, NewObj(_obj_id))
    /\ _obj_id' = _obj_id
    /\ ret' = [NoRet EXCEPT !.op = "init", !.target = Len(objs) + 1]
    /\ UNCHANGED <<_var_num, _registry, ev, issued, threads>>

\* WeldObject(encoder, decoder)
Construct(max) ==
    /\ Idle
    /\ Len(objs) < max
    /\ objs' = Append(objs, NewObj(_obj_id))
    /\ _obj_id' = _obj_id + 1
    /\ ret' = [NoRet EXCEPT !.op = "init", !.target = Len(objs) + 1]
    /\ UNCHANGED <<_var_num, _registry, ev, issued, threads>>

\* obj.weld_code = code
SetWeldCode(i, code) ==
    /\ Idle
    /\ objs[i].weld_code # code
    /\ objs' = [objs EXCEPT ![i].weld_code = code]
    /\ ret' = NoRet
    /\ UNCHANGED <<_var_num, _obj_id, _registry, ev, issued, threads>>

NumDeps == LET RECURSIVE Sum(_)
               Sum(k) == IF k = 0 THEN 0
                         ELSE Cardinality(DOMAIN objs[k].dependencies) + Sum(k - 1)
           IN  Sum(Len(objs))

\* clients key a dependency by its obj_id: dependencies[dep.obj_id] = dep
DepKeys(j) == {objs[j].obj_id}

\* obj.dependencies[key] = dep
AddDependency(i, key, j) ==
    /\ Idle
    /\ key \notin DOMAIN objs[i].dependencies
    /\ NumDeps < MaxDeps
    /\ objs' = [objs EXCEPT ![i].dependencies = (key :> j) @@ @]
    /\ ret' = NoRet
    /\ UNCHANGED <<_var_num, _obj_id, _registry, ev, issued, threads>>

Deps(i) == Range(objs[i].dependencies)

RECURSIVE ReachN(_, _)
ReachN(S, n) == IF n = 0 THEN S
                ELSE ReachN(S \cup UNION {Deps(x) : x \in S}, n - 1)

\* the nodes reachable from i through dependencies, i included
Reach(i) == ReachN({i}, Len(objs))

\* the nodes reachable from i by at least one dependency edge
ReachPlus(i) == ReachN(Deps(i), Len(objs))

Acyclic(i) == \A x \in Reach(i) : x \notin ReachPlus(x)

---------------------------------------------------------------------------
(* get_let_statements *)

LetStatement(o) == S_let \o o.obj_id \o S_eq \o o.weld_code \o S_close

\* for key in sorted(cur_obj.dependencies.keys()): queue.append(...)
Pushed(o) ==
    LET keys == Sorted(DOMAIN o.dependencies)
    IN  [k \in 1..Len(keys) |-> o.dependencies[keys[k]]]

\* a variant that records the statement before looking at visited
WalkStepUnguarded(st) ==
    LET cur  == st.queue[Len(st.queue)]
        rest == SubSeq(st.queue, 1, Len(st.queue) - 1)
        o    == objs[cur]
    IN  IF o.obj_id \notin st.visited
        THEN [queue |-> rest \o Pushed(o),
              visited |-> st.visited \cup {o.obj_id},
              lets |-> <<LetStatement(o)>> \o st.lets,
              pops |-> st.pops + 1]
        ELSE [st EXCEPT !.queue = rest,
                        !.lets = <<LetStatement(o)>> \o st.lets,
                        !.pops = st.pops + 1]

\* one iteration of the while loop
WalkStep(st) ==
    LET cur  == st.queue[Len(st.queue)]
        rest == SubSeq(st.queue, 1, Len(st.queue) - 1)
        o    == objs[cur]
    IN  IF o.obj_id \notin st.visited
        THEN [queue |-> rest \o Pushed(o),
              visited |-> st.visited \cup {o.obj_id},
              lets |-> <<LetStatement(o)>> \o st.lets,
              pops |-> st.pops + 1]
        ELSE [st EXCEPT !.queue = rest, !.pops = st.pops + 1]

RECURSIVE Walk(_)
Walk(st) == IF st.queue = <<>> THEN st ELSE Walk(WalkStep(st))

\* a variant that keeps the statements in the order the walk left them
OrderStatementsAsFound(lets) == lets

\* let_statements.sort()
OrderStatements(lets) == ListSort(lets)

\* the while loop, from queue = [self] to the empty queue
WalkFrom(i) ==
    Walk([queue |-> <<i>>, visited |-> {}, lets |-> <<>>, pops |-> 0])

\* lines 128-129: the statements the loop left, sorted, then self.obj_id
LetListOf(i, w) == Append(OrderStatements(w.lets), objs[i].obj_id)

\* the list that is joined
LetList(i) == LetListOf(i, WalkFrom(i))

get_let_statements(i) == Join(S_nl, LetList(i))

\* a variant that takes the dependencies out of the node it starts from
GenerateDraining(i) ==
    /\ Idle
    /\ LET w == WalkFrom(i)
       IN  ret' = [NoRet EXCEPT !.op = "generate", !.target = i,
                                !.text = Join(S_nl, LetListOf(i, w)),
                                !.pops = w.pops]
    /\ objs' = [objs EXCEPT ![i].dependencies = EmptyDict]
    /\ UNCHANGED <<_var_num, _obj_id, _registry, ev, issued, threads>>

\* generate(): return self.get_let_statements()
Generate(i) ==
    /\ Idle
    /\ LET w == WalkFrom(i)
       IN  ret' = [NoRet EXCEPT !.op = "generate", !.target = i,
                                !.text = Join(S_nl, LetListOf(i, w)),
                                !.pops = w.pops]
    /\ UNCHANGED <<objs, _var_num, _obj_id, _registry, ev, issued, threads>>

---------------------------------------------------------------------------
(* Literal values, and the injected encoder and decoder *)

IntVal(n) == [ty |-> "int", n |-> n, s |-> <<>>]
StrVal(s) == [ty |-> "str", n |-> 0, s |-> s]

\* the literals clients register: 5, 7 and "5"
Literals == {IntVal(5), IntVal(7), StrVal(<<53>>)}

\* str(value)
Str(v) == IF v.ty = "int" THEN Dec(v.n) ELSE v.s

\* encoder.py_to_weld_type(value)
py_to_weld_type(v) == IF v.ty = "int" THEN "i64" ELSE "vec[i8]"

\* encoder.encode(value)
encode(v) == [encoded |-> TRUE, of |-> v]

\* a value handed over as it is (its name has an explicit type)
Raw(v) == [encoded |-> FALSE, of |-> v]

\* str(weld_type)
TypeStr(t) ==
    CASE t = "i64" -> <<105, 54, 52>>
      [] t = "i32" -> <<105, 51, 50>>
      [] t = "vec[i8]" -> <<118, 101, 99, 91, 105, 56, 93>>

\* weld_type.ctype_class
CtypeClass(t) ==
    CASE t = "i64" -> "c_long"
      [] t = "i32" -> "c_int"
      [] t = "vec[i8]" -> "WeldVec(c_char)"

\* the explicit types passed as tys
Tys == {"i32"}
None == "None"

\* decoder.decode(data, restype)
decode(data, restype) == [decoded |-> TRUE, restype |-> restype, data |-> data]

\* ctypes.cast(data, POINTER(c_int64)).contents.value
ReadInt64(data) == [decoded |-> FALSE, restype |-> "c_int64", data |-> <<data[1]>>]

---------------------------------------------------------------------------
(* The literal registry and update *)

\* a variant that forgets to advance the counter
generate_input_name_stuck(value_str) ==
    LET name == S_inp \o Dec(_var_num)
    IN  [name |-> name, var_num |-> _var_num,
         registry |-> (value_str :> name) @@ _registry]

\* generate_input_name: the name, and the class attributes after the call
generate_input_name(value_str) ==
    LET name == S_inp \o Dec(_var_num)
    IN  [name |-> name, var_num |-> _var_num + 1,
         registry |-> (value_str :> name) @@ _registry]

\* a variant that never consults the registry
InternAlwaysNew(value_str) == generate_input_name(value_str)

\* update, lines 105-109: the registered name, or a new one
Intern(value_str) ==
    IF value_str \in DOMAIN _registry
    THEN [name |-> _registry[value_str], var_num |-> _var_num,
          registry |-> _registry]
    ELSE generate_input_name(value_str)

\* WeldObject.generate_input_name(value_str), the static method called
\* directly
GenerateInputName(value_str) ==
    /\ Idle
    /\ _var_num < MaxVarNum
    /\ LET r == generate_input_name(value_str)
       IN  /\ _var_num' = r.var_num
           /\ _registry' = r.registry
           /\ ret' = [NoRet EXCEPT !.op = "generate_input_name",
                                   !.text = r.name]
    /\ UNCHANGED <<objs, _obj_id, ev, issued, threads>>

\* a variant that keeps the value a name already has in the context
UpdateLiteralKeepFirst(i, v, tys, override) ==
    /\ Idle
    /\ LET value_str == Str(v)
           r == Intern(value_str)
       IN  /\ _var_num' = r.var_num
           /\ _registry' = r.registry
           /\ objs' = [objs EXCEPT
                  ![i].context = @ @@ (r.name :> v),
                  ![i].argtypes = IF tys # None /\ ~override
                                  THEN (r.name :> tys) @@ @ ELSE @]
           /\ ret' = [NoRet EXCEPT !.op = "update", !.target = i,
                                   !.text = r.name, !.arg = v]
           /\ issued' = issued \cup {<<value_str, r.name>>}
    /\ UNCHANGED <<_obj_id, ev, threads>>

\* update(value, tys, override) with a literal value
UpdateLiteral(i, v, tys, override) ==
    /\ Idle
    /\ LET value_str == Str(v)
           r == Intern(value_str)
       IN  /\ _var_num' = r.var_num
           /\ _registry' = r.registry
           /\ objs' = [objs EXCEPT
                  ![i].context = (r.name :> v) @@ @,
                  ![i].argtypes = IF tys # None /\ ~override
                                  THEN (r.name :> tys) @@ @ ELSE @]
           /\ ret' = [NoRet EXCEPT !.op = "update", !.target = i,
                                   !.text = r.name, !.arg = v]
           /\ issued' = issued \cup {<<value_str, r.name>>}
    /\ UNCHANGED <<_obj_id, ev, threads>>

\* a variant in which the caller's entry wins on a shared key
UpdateObjCallerWins(i, j) ==
    /\ Idle
    /\ objs' = [objs EXCEPT ![i].context = @ @@ objs[j].context]
    /\ ret' = [NoRet EXCEPT !.op = "update_obj", !.target = i, !.src = j]
    /\ UNCHANGED <<_var_num, _obj_id, _registry, ev, issued, threads>>

\* update(value) with value a WeldObject: self.context.update(value.context)
\* (for a LazyResult the same is done with value.weld_expr.context)
UpdateObj(i, j) ==
    /\ Idle
    /\ objs' = [objs EXCEPT ![i].context = objs[j].context @@ @]
    /\ ret' = [NoRet EXCEPT !.op = "update_obj", !.target = i, !.src = j]
    /\ UNCHANGED <<_var_num, _obj_id, _registry, ev, issued, threads>>

---------------------------------------------------------------------------
(* to_weld_func *)

\* names = sorted(self.context.keys())
HeaderNames(i) == Sorted(DOMAIN objs[i].context)

\* the type the header gives a name
HeaderType(i, name) == py_to_weld_type(objs[i].context[name])

ArgStrs(i) ==
    LET names == HeaderNames(i)
    IN  [k \in 1..Len(names) |->
            names[k] \o S_colon \o TypeStr(HeaderType(i, names[k]))]

Header(i) == S_bar \o Join(S_comma, ArgStrs(i)) \o S_bar

to_weld_func(i) ==
    Header(i) \o S_sp \o get_let_statements(i) \o S_nl \o objs[i].weld_code

HeaderArgs(i) ==
    LET names == HeaderNames(i)
    IN  [k \in 1..Len(names) |->
            [name |-> names[k], ty |-> HeaderType(i, names[k])]]

ToWeldFunc(i) ==
    /\ Idle
    /\ ret' = [NoRet EXCEPT !.op = "to_weld_func", !.target = i,
                            !.text = to_weld_func(i),
                            !.header = HeaderArgs(i)]
    /\ UNCHANGED <<objs, _var_num, _obj_id, _registry, ev, issued, threads>>

---------------------------------------------------------------------------
(* evaluate *)

\* result types asked for
Restypes == {"i64"}

\* diagnostics of the external compiler and runtime: "E1", "E22"
Diags == {<<69, 49>>, <<69, 50, 50>>}

\* err.code() values
ErrCodes == {0, 1}

\* result buffers the runtime hands back (64-bit words)
Buffers == {<<7>>, <<7, 9>>}

S_compile_err == <<67, 111, 117, 108, 100, 32, 110, 111, 116, 32, 99, 111,
                   109, 112, 105, 108, 101, 32, 102, 117, 110, 99, 116, 105,
                   111, 110, 32>>       \* "Could not compile function "
S_run_err == <<69, 114, 114, 111, 114, 32, 119, 104, 105, 108, 101, 32, 114,
               117, 110, 110, 105, 110, 103, 32, 102, 117, 110, 99, 116, 105,
               111, 110, 44, 10>>       \* "Error while running function,\n"
S_run_msg == <<10, 10, 69, 114, 114, 111, 114, 32, 109, 101, 115, 115, 97,
               103, 101, 58, 32>>       \* "\n\nError message: "

Reverse(l) == [k \in 1..Len(l) |-> l[Len(l) + 1 - k]]

\* a variant that takes the names in another order than the header's
EvalNamesOtherOrder(i) == Reverse(Sorted(DOMAIN objs[i].context))

\* names = sorted(self.context.keys()), line 159
EvalNames(i) == Sorted(DOMAIN objs[i].context)

\* the ctypes class of a name's Args field, lines 165-170
FieldType(i, name) ==
    IF name \in DOMAIN objs[i].argtypes
    THEN CtypeClass(objs[i].argtypes[name])
    ELSE CtypeClass(py_to_weld_type(objs[i].context[name]))

\* the value set on weld_args for a name, lines 165-171
FieldValue(i, name) ==
    IF name \in DOMAIN objs[i].argtypes
    THEN Raw(objs[i].context[name])
    ELSE encode(objs[i].context[name])

\* lines 148-192: the program text, the Args structure and its values
EvalBegin(i, restype, dec) ==
    /\ Idle
    /\ LET names == EvalNames(i)
       IN  ev' = [NoEval EXCEPT
                  !.pc = "compile", !.target = i, !.decode = dec,
                  !.restype = restype,
                  !.func = to_weld_func(i),
                  !.header = HeaderArgs(i),
                  !.fields = [k \in 1..Len(names) |->
                                 [name |-> names[k],
                                  ctype |-> FieldType(i, names[k])]],
                  !.assigned = [k \in 1..Len(names) |->
                                 [name |-> names[k],
                                  value |-> FieldValue(i, names[k])]]]
    /\ ret' = NoRet
    /\ UNCHANGED <<objs, _var_num, _obj_id, _registry, issued, threads>>

\* what evaluate leaves behind when it returns or raises
EvalOutcome(outcome, text, value, diag) ==
    [NoRet EXCEPT !.op = "evaluate", !.target = ev.target,
                  !.outcome = outcome, !.text = text, !.value = value,
                  !.header = ev.header, !.decode = ev.decode,
                  !.restype = ev.restype, !.func = ev.func, !.diag = diag,
                  !.data = ev.data, !.cstatus = ev.cstatus,
                  !.rstatus = ev.rstatus, !.compiles = ev.compiles,
                  !.runs = ev.runs, !.reads = ev.reads,
                  !.decodes = ev.decodes]

\* a variant that does not look at err.code() after compiling
EvalCompileUnchecked(code, msg) ==
    /\ ev.pc = "compile"
    /\ ev' = [ev EXCEPT !.pc = "run", !.compiles = @ + 1, !.cstatus = code]
    /\ ret' = NoRet
    /\ UNCHANGED <<objs, _var_num, _obj_id, _registry, issued, threads>>

\* lines 194-197: cweld.WeldModule(func, conf, err)
EvalCompile(code, msg) ==
    /\ ev.pc = "compile"
    /\ IF code # 0
       THEN /\ ret' = [EvalOutcome("error",
                          S_compile_err \o ev.func \o S_colon \o msg,
                          NoValue, msg)
                       EXCEPT !.compiles = ev.compiles + 1, !.cstatus = code]
            /\ ev' = NoEval
       ELSE /\ ev' = [ev EXCEPT !.pc = "run", !.compiles = @ + 1]
            /\ ret' = NoRet
    /\ UNCHANGED <<objs, _var_num, _obj_id, _registry, issued, threads>>

\* a variant that does not look at err.code() after running
EvalRunUnchecked(code, msg, buf) ==
    /\ ev.pc = "run"
    /\ ev' = [ev EXCEPT !.pc = "decode", !.runs = @ + 1, !.rstatus = code,
                        !.reads = @ + 1, !.data = buf]
    /\ ret' = NoRet
    /\ UNCHANGED <<objs, _var_num, _obj_id, _registry, issued, threads>>

\* lines 210-216: module.run(conf, arg, err), then weld_ret.data()
EvalRun(code, msg, buf) ==
    /\ ev.pc = "run"
    /\ IF code # 0
       THEN /\ ret' = [EvalOutcome("error",
                          S_run_err \o ev.func \o S_run_msg \o msg,
                          NoValue, msg)
                       EXCEPT !.runs = ev.runs + 1, !.rstatus = code]
            /\ ev' = NoEval
       ELSE /\ ev' = [ev EXCEPT !.pc = "decode", !.runs = @ + 1,
                                !.reads = @ + 1, !.data = buf]
            /\ ret' = NoRet
    /\ UNCHANGED <<objs, _var_num, _obj_id, _registry, issued, threads>>

\* a variant that decodes whatever the decode flag says
EvalResultAlwaysDecode(e) ==
    [value |-> decode(e.data, e.restype),
     reads |-> e.reads, decodes |-> e.decodes + 1]

\* lines 223-228: the decoder's value, or the integer at the buffer's start
EvalResult(e) ==
    IF e.decode
    THEN [value |-> decode(e.data, e.restype),
          reads |-> e.reads, decodes |-> e.decodes + 1]
    ELSE [value |-> ReadInt64(e.data),
          reads |-> e.reads + 1, decodes |-> e.decodes]

\* lines 222-234
EvalFinish ==
    /\ ev.pc = "decode"
    /\ LET r == EvalResult(ev)
       IN  ret' = [EvalOutcome("ok", <<>>, r.value, <<>>)
                   EXCEPT !.reads = r.reads, !.decodes = r.decodes]
    /\ ev' = NoEval
    /\ UNCHANGED <<objs, _var_num, _obj_id, _registry, issued, threads>>

---------------------------------------------------------------------------
(* Specifications *)

InitWith(first_id) ==
    /\ objs = <<>>
    /\ _var_num = 0
    /\ _obj_id = first_id
    /\ _registry = EmptyDict
    /\ ev = NoEval
    /\ ret = NoRet
    /\ issued = {}
    /\ threads = [t \in ThreadIds |-> NoThread]

Init == InitWith(100)

TysArgs == Tys \cup {None}

Evaluate ==
    \/ \E i \in Ids, t \in Restypes, d \in BOOLEAN : EvalBegin(i, t, d)
    \/ \E c \in ErrCodes, m \in Diags : EvalCompile(c, m)
    \/ \E c \in ErrCodes, m \in Diags, buf \in Buffers : EvalRun(c, m, buf)
    \/ EvalFinish

Next ==
    \/ Construct(MaxCtxObjs)
    \/ \E i \in Ids, v \in Literals, t \in TysArgs, o \in BOOLEAN :
          UpdateLiteral(i, v, t, o)
    \/ \E i \in Ids, j \in Ids : UpdateObj(i, j)
    \/ \E i \in Ids, j \in Ids : \E key \in DepKeys(j) : AddDependency(i, key, j)
    \/ \E i \in Ids : ToWeldFunc(i)

\* registering literals, composing nodes and assembling the program text
Spec == Init /\ [][Next]_vars

NextReg ==
    \/ Construct(MaxCtxObjs)
    \/ \E i \in Ids, v \in Literals, t \in TysArgs, o \in BOOLEAN :
          UpdateLiteral(i, v, t, o)
    \/ \E i \in Ids, j \in Ids : UpdateObj(i, j)

\* registering literals and merging contexts
SpecReg == Init /\ [][NextReg]_vars

\* strings generate_input_name is called with directly
ValueStrs == {Str(v) : v \in Literals} \cup {<<120>>}

NextGen ==
    \/ Construct(MaxCtxObjs)
    \/ \E i \in Ids, v \in Literals : UpdateLiteral(i, v, None, TRUE)
    \/ \E s \in ValueStrs : GenerateInputName(s)

\* registering literals, and calling generate_input_name directly
SpecGen == Init /\ [][NextGen]_vars

NextEval ==
    \/ Construct(MaxCtxObjs)
    \/ \E i \in Ids, v \in Literals, t \in TysArgs, o \in BOOLEAN :
          UpdateLiteral(i, v, t, o)
    \/ Evaluate

\* registering literals and evaluating nodes
SpecEval == Init /\ [][NextEval]_vars

InitFlat == \E n \in StartIds : InitWith(n)


NextFlat ==
    \/ Construct(MaxObjs)
    \/ \E i \in Ids, c \in Codes : SetWeldCode(i, c)
    \/ \E i \in Ids, j \in Ids : \E key \in DepKeys(j) : AddDependency(i, key, j)
    \/ \E i \in Ids : Generate(i)
    \/ \E i \in Ids : ToWeldFunc(i)

\* building graphs and flattening them
SpecFlat == InitFlat /\ [][NextFlat]_vars

\* the same, in a process whose first node is obj100
SpecGraph == Init /\ [][NextFlat]_vars

\* the literals registered before nodes are flattened and evaluated
FrameLiterals == {IntVal(5), StrVal(<<53>>)}

NextIds ==
    \/ Construct(MaxObjs)
    \/ \E i \in Ids, v \in FrameLiterals : UpdateLiteral(i, v, None, TRUE)
    \/ \E i \in Ids, c \in Codes : SetWeldCode(i, c)

\* constructing nodes, from either first id, between other calls
SpecIds == InitFlat /\ [][NextIds]_vars

---------------------------------------------------------------------------
(* Two threads in __init__ and update(literal), one read or write at a time *)

\* positions inside WeldObject.__init__
InConstruct == {"id", "load_id", "store_id"}

\* nodes constructed or under construction
Started == Len(objs) + Cardinality({t \in ThreadIds : threads[t].pc \in InConstruct})

\* the literals the threads register
ThreadLiterals == {IntVal(5), IntVal(7)}

\* the node the threads register them on: the first one constructed
ThreadTargets == Ids \cap {1}

\* a thread calls WeldObject(encoder, decoder)
ThreadBeginConstruct(t) ==
    /\ threads[t].pc = "idle"
    /\ threads[t].ops < MaxThreadOps
    /\ Started < MaxCtxObjs
    /\ threads' = [threads EXCEPT ![t].pc = "id", ![t].ops = @ + 1]
    /\ UNCHANGED <<objs, _var_num, _obj_id, _registry, ev, ret, issued>>

\* line 71: self.obj_id = "obj%d" % WeldObject._obj_id
ThreadReadId(t) ==
    /\ threads[t].pc = "id"
    /\ threads' = [threads EXCEPT ![t].pc = "load_id",
                                  ![t].name = S_obj \o Dec(_obj_id)]
    /\ UNCHANGED <<objs, _var_num, _obj_id, _registry, ev, ret, issued>>

\* line 72, WeldObject._obj_id += 1: the attribute is loaded
ThreadLoadId(t) ==
    /\ threads[t].pc = "load_id"
    /\ threads' = [threads EXCEPT ![t].pc = "store_id", ![t].tmp = _obj_id]
    /\ UNCHANGED <<objs, _var_num, _obj_id, _registry, ev, ret, issued>>

\* line 72, WeldObject._obj_id += 1: the sum is stored; lines 75-77 end
\* the construction
ThreadStoreId(t) ==
    /\ threads[t].pc = "store_id"
    /\ _obj_id' = threads[t].tmp + 1
    /\ objs' = Append(objs, [NewObj(0) EXCEPT !.obj_id = threads[t].name])
    /\ threads' = [threads EXCEPT ![t].pc = "idle", ![t].name = <<>>,
                                  ![t].tmp = 0]
    /\ UNCHANGED <<_var_num, _registry, ev, ret, issued>>

\* a thread calls update(value) with a literal on a node; line 105
ThreadBeginUpdate(t, i, v) ==
    /\ threads[t].pc = "idle"
    /\ threads[t].ops < MaxThreadOps
    /\ threads' = [threads EXCEPT ![t].pc = "check", ![t].ops = @ + 1,
                                  ![t].target = i, ![t].value = v]
    /\ UNCHANGED <<objs, _var_num, _obj_id, _registry, ev, ret, issued>>

\* positions between the test of line 106 and the write of line 86
InRegistration == {"lookup", "name", "load", "store", "register"}

\* a variant that waits while another thread is registering a literal
ThreadCheckLocked(t) ==
    /\ threads[t].pc = "check"
    /\ \A u \in ThreadIds \ {t} : threads[u].pc \notin InRegistration
    /\ threads' = [threads EXCEPT ![t].pc =
                      IF Str(threads[t].value) \in DOMAIN _registry
                      THEN "lookup" ELSE "name"]
    /\ UNCHANGED <<objs, _var_num, _obj_id, _registry, ev, ret, issued>>

\* line 106: if value_str in WeldObject._registry
ThreadCheck(t) ==
    /\ threads[t].pc = "check"
    /\ threads' = [threads EXCEPT ![t].pc =
                      IF Str(threads[t].value) \in DOMAIN _registry
                      THEN "lookup" ELSE "name"]
    /\ UNCHANGED <<objs, _var_num, _obj_id, _registry, ev, ret, issued>>

\* line 107: name = WeldObject._registry[value_str]
ThreadLookup(t) ==
    /\ threads[t].pc = "lookup"
    /\ threads' = [threads EXCEPT ![t].pc = "context",
                      ![t].name = _registry[Str(threads[t].value)]]
    /\ UNCHANGED <<objs, _var_num, _obj_id, _registry, ev, ret, issued>>

\* line 84: name = "_inp%d" % WeldObject._var_num
ThreadReadName(t) ==
    /\ threads[t].pc = "name"
    /\ threads' = [threads EXCEPT ![t].pc = "load",
                                  ![t].name = S_inp \o Dec(_var_num)]
    /\ UNCHANGED <<objs, _var_num, _obj_id, _registry, ev, ret, issued>>

\* line 85, WeldObject._var_num += 1: the attribute is loaded
ThreadLoadVarNum(t) ==
    /\ threads[t].pc = "load"
    /\ threads' = [threads EXCEPT ![t].pc = "store", ![t].tmp = _var_num]
    /\ UNCHANGED <<objs, _var_num, _obj_id, _registry, ev, ret, issued>>

\* line 85, WeldObject._var_num += 1: the sum is stored
ThreadStoreVarNum(t) ==
    /\ threads[t].pc = "store"
    /\ _var_num' = threads[t].tmp + 1
    /\ threads' = [threads EXCEPT ![t].pc = "register", ![t].tmp = 0]
    /\ UNCHANGED <<objs, _obj_id, _registry, ev, ret, issued>>

\* line 86: WeldObject._registry[value_str] = name
ThreadRegister(t) ==
    /\ threads[t].pc = "register"
    /\ _registry' = (Str(threads[t].value) :> threads[t].name) @@ _registry
    /\ threads' = [threads EXCEPT ![t].pc = "context"]
    /\ UNCHANGED <<objs, _var_num, _obj_id, ev, ret, issued>>

\* lines 110-114: self.context[name] = value; return name
ThreadWriteContext(t) ==
    /\ threads[t].pc = "context"
    /\ objs' = [objs EXCEPT ![threads[t].target].context =
                    (threads[t].name :> threads[t].value) @@ @]
    /\ issued' = issued \cup {<<Str(threads[t].value), threads[t].name>>}
    /\ threads' = [threads EXCEPT ![t].pc = "idle", ![t].target = 0,
                      ![t].value = NoLiteral, ![t].name = <<>>]
    /\ UNCHANGED <<_var_num, _obj_id, _registry, ev, ret>>

\* the next read or write of a thread that is inside a call
ThreadStep(t) ==
    \/ ThreadReadId(t)
    \/ ThreadLoadId(t)
    \/ ThreadStoreId(t)
    \/ ThreadCheck(t)
    \/ ThreadLookup(t)
    \/ ThreadReadName(t)
    \/ ThreadLoadVarNum(t)
    \/ ThreadStoreVarNum(t)
    \/ ThreadRegister(t)
    \/ ThreadWriteContext(t)

NextThreads ==
    \/ \E t \in ThreadIds : ThreadBeginConstruct(t)
    \/ \E t \in ThreadIds, i \in ThreadTargets, v \in ThreadLiterals :
          ThreadBeginUpdate(t, i, v)
    \/ \E t \in ThreadIds : ThreadStep(t)

\* two threads constructing nodes and registering literals, interleaved at
\* every read and write of the class attributes
SpecThreads == Init /\ [][NextThreads]_vars

NextFrame ==
    \/ Construct(MaxCtxObjs)
    \/ \E i \in Ids, v \in FrameLiterals : UpdateLiteral(i, v, None, TRUE)
    \/ \E i \in Ids, j \in Ids : \E key \in DepKeys(j) :
          NumDeps < MaxFrameDeps /\ AddDependency(i, key, j)
    \/ \E i \in Ids : Generate(i)
    \/ \E i \in Ids : ToWeldFunc(i)
    \/ Evaluate

\* building nodes with inputs and dependencies, flattening and evaluating
SpecFrame == Init /\ [][NextFrame]_vars

---------------------------------------------------------------------------
(* Reading a returned text *)

\* the positions at which p occurs in s
Occurrences(s, p) ==
    {k \in 1..(Len(s) - Len(p) + 1) : SubSeq(s, k, k + Len(p) - 1) = p}

\* the position of the first occurrence of p in s, 0 when there is none
Pos(s, p) ==
    LET occ == Occurrences(s, p)
    IN  IF occ = {} THEN 0 ELSE CHOOSE k \in occ : \A m \in occ : k <= m

\* the opening of a node's binding: "let <obj_id> = ("
LetPrefix(o) == S_let \o o.obj_id \o S_eq

\* s without its trailing newlines
RECURSIVE StripNl(_)
StripNl(s) ==
    IF s # <<>> /\ s[Len(s)] = 10 THEN StripNl(SubSeq(s, 1, Len(s) - 1)) ELSE s

Generated == ret.op = "generate"

---------------------------------------------------------------------------
(* Claims on flattening, checked under SpecFlat *)

\* C1: in the text get_let_statements returns for an acyclic graph, for
\* every edge "a depends on b" between reachable nodes the binding of b
\* starts strictly before the binding of a, and both are present.
C1_DependencyBeforeDependent ==
    (Generated /\ Acyclic(ret.target)) =>
        \A a \in Reach(ret.target) : \A b \in Deps(a) :
            /\ Pos(ret.text, LetPrefix(objs[b])) > 0
            /\ Pos(ret.text, LetPrefix(objs[b])) < Pos(ret.text, LetPrefix(objs[a]))

\* C1, the graphs clients build by composing existing nodes: the same
\* ordering when every node depends only on nodes constructed before it.
C1_OrderingWhenDependenciesAreOlder ==
    (Generated /\ Acyclic(ret.target)
       /\ \A a \in Reach(ret.target) : \A b \in Deps(a) : b < a) =>
        \A a \in Reach(ret.target) : \A b \in Deps(a) :
            Pos(ret.text, LetPrefix(objs[b])) < Pos(ret.text, LetPrefix(objs[a]))

\* C2: the text get_let_statements returns for an acyclic graph holds
\* exactly one binding "let <obj_id> = (<weld_code>);" for every node
\* reachable from the target, and no binding for any other node.
C2_OneBindingPerReachableNode ==
    (Generated /\ Acyclic(ret.target)) =>
        \A n \in Ids :
            IF n \in Reach(ret.target)
            THEN /\ Cardinality(Occurrences(ret.text, LetPrefix(objs[n]))) = 1
                 /\ Cardinality(Occurrences(ret.text, LetStatement(objs[n]))) = 1
            ELSE Occurrences(ret.text, LetPrefix(objs[n])) = {}

\* a flattening of an acyclic graph in which one node is a dependency of
\* two reachable nodes, so that it is pushed on the worklist twice
C2_Witness ==
    /\ Generated
    /\ Acyclic(ret.target)
    /\ \E n \in Reach(ret.target) :
          Cardinality({a \in Reach(ret.target) : n \in Deps(a)}) >= 2

\* a flattening that leaves a constructed node out because it is unreachable
C2_WitnessUnreachable ==
    /\ Generated
    /\ Acyclic(ret.target)
    /\ Cardinality(Reach(ret.target)) >= 2
    /\ Ids \ Reach(ret.target) # {}

\* C3: the text to_weld_func returns is the header, a space, the ordered
\* bindings and the trailing reference to the target's obj_id, and nothing
\* but line ends follows that reference.
C3_NothingAfterTrailingReference ==
    ret.op = "to_weld_func" =>
        StripNl(ret.text) =
            Header(ret.target) \o S_sp \o get_let_statements(ret.target)

---------------------------------------------------------------------------
(* Claims on the header, checked under Spec *)

\* C4: the header to_weld_func builds for a target names every literal
\* input found in the context of any node reachable from the target.
C4_HeaderCoversReachableContexts ==
    ret.op = "to_weld_func" =>
        \A n \in Reach(ret.target) : \A name \in DOMAIN objs[n].context :
            /\ \E k \in 1..Len(ret.header) : ret.header[k].name = name
            /\ Contains(ret.text, name \o S_colon)

---------------------------------------------------------------------------
(* Claims on the registry, checked under SpecReg *)

\* C5: over all update(literal) calls made so far, two calls return the
\* same name exactly when their values have the same canonical form, and
\* _registry maps distinct canonical forms to distinct names.
C5_NameIffCanonicalForm ==
    /\ \A p \in issued : \A q \in issued : (p[1] = q[1]) <=> (p[2] = q[2])
    /\ \A a \in DOMAIN _registry : \A b \in DOMAIN _registry :
          a # b => _registry[a] # _registry[b]
    /\ \A p \in issued : p[1] \in DOMAIN _registry /\ _registry[p[1]] = p[2]

\* two nodes hold the values 5 and "5" (one canonical form) under one name,
\* and a second canonical form has been given a second name
C5_Witness ==
    /\ Cardinality(issued) = 2
    /\ \E i \in Ids : \E j \in Ids \ {i} : \E name \in DOMAIN objs[i].context :
          /\ name \in DOMAIN objs[j].context
          /\ objs[i].context[name] # objs[j].context[name]
          /\ Str(objs[i].context[name]) = Str(objs[j].context[name])

---------------------------------------------------------------------------
(* Claims on evaluate, checked under SpecEval *)

Evaluating == ev.pc # "idle"
Returned == ret.op = "evaluate"

\* C6: within one evaluate call the names of the header, in the order they
\* stand in the program text, are position by position the names of the
\* Args fields and the names the values are set under.
C6_HeaderOrderIsFrameOrder ==
    Evaluating =>
        /\ Len(ev.fields) = Len(ev.header)
        /\ Len(ev.assigned) = Len(ev.header)
        /\ Len(ev.header) = Cardinality(DOMAIN objs[ev.target].context)
        /\ \A k \in 1..Len(ev.header) :
              /\ ev.fields[k].name = ev.header[k].name
              /\ ev.assigned[k].name = ev.header[k].name
              /\ Pos(ev.func, ev.fields[k].name \o S_colon) > 0
        /\ \A k \in 1..Len(ev.fields) : \A m \in 1..Len(ev.fields) :
              k < m => Pos(ev.func, ev.fields[k].name \o S_colon)
                         < Pos(ev.func, ev.fields[m].name \o S_colon)

\* an evaluate call on a node with two literal inputs
C6_Witness == Evaluating /\ Len(ev.fields) >= 2

\* C7: the header's type for a name is the type recorded in argtypes when
\* there is one and the encoder's type otherwise, so the ctypes class of the
\* header's type is the class of the Args field of that name.
C7_HeaderTypeIsFieldType ==
    Evaluating =>
        \A k \in 1..Len(ev.header) :
            LET o    == objs[ev.target]
                name == ev.header[k].name
            IN  /\ ev.header[k].ty =
                      IF name \in DOMAIN o.argtypes THEN o.argtypes[name]
                      ELSE py_to_weld_type(o.context[name])
                /\ \E f \in Range(ev.fields) :
                      f.name = name /\ f.ctype = CtypeClass(ev.header[k].ty)

\* C8: when the compile reports a nonzero status, evaluate raises a message
\* holding the assembled program text and the compiler's diagnostic, and in
\* that call run was not invoked, the result buffer was not read, the
\* decoder was not invoked and no value was returned.
C8_CompileErrorStopsEvaluate ==
    /\ (Returned /\ ret.cstatus # 0) =>
          /\ ret.outcome = "error"
          /\ ret.func = to_weld_func(ret.target)
          /\ Contains(ret.text, ret.func)
          /\ Contains(ret.text, ret.diag)
          /\ ret.runs = 0 /\ ret.reads = 0 /\ ret.decodes = 0
          /\ ret.value = NoValue
    /\ Evaluating => ev.cstatus = 0

\* an evaluate call that ended in the compile error
C8_Witness == Returned /\ ret.cstatus # 0 /\ ret.compiles = 1 /\ ret.diag # <<>>

\* C9: when the compile succeeds and the run reports a nonzero status,
\* evaluate raises a message holding the runtime's diagnostic and the
\* program text, the result buffer was not read, neither the decoder nor
\* the raw read ran and no value was returned; and run is invoked only
\* after a compile with status zero.
C9_RunErrorStopsEvaluate ==
    /\ (Returned /\ ret.rstatus # 0) =>
          /\ ret.outcome = "error"
          /\ ret.func = to_weld_func(ret.target)
          /\ Contains(ret.text, ret.func)
          /\ Contains(ret.text, ret.diag)
          /\ ret.reads = 0 /\ ret.decodes = 0
          /\ ret.value = NoValue
    /\ (Returned /\ ret.runs > 0) => (ret.compiles = 1 /\ ret.cstatus = 0)
    /\ (Evaluating /\ ev.runs > 0) =>
          (ev.compiles = 1 /\ ev.cstatus = 0 /\ ev.rstatus = 0)

\* an evaluate call that ended in the run error
C9_Witness ==
    Returned /\ ret.rstatus # 0 /\ ret.runs = 1 /\ ret.cstatus = 0
             /\ ret.diag # <<>>

\* C10: a successful evaluate with decode=False returns the integer at the
\* start of the raw result buffer without a decoder call; with decode=True
\* it returns decoder.decode(data, restype), called once, after the run
\* succeeded.
C10_DecodeFlagSelectsResult ==
    (Returned /\ ret.outcome = "ok") =>
        /\ ret.compiles = 1 /\ ret.cstatus = 0
        /\ ret.runs = 1 /\ ret.rstatus = 0
        /\ IF ret.decode
           THEN /\ ret.value = decode(ret.data, ret.restype)
                /\ ret.decodes = 1
           ELSE /\ ret.value.decoded = FALSE
                /\ ret.value.data = <<ret.data[1]>>
                /\ ret.decodes = 0

\* a successful evaluate with decode=False on a buffer of two words
C10_Witness ==
    Returned /\ ret.outcome = "ok" /\ ~ret.decode /\ Len(ret.data) = 2

\* a successful evaluate with decode=True
C10_WitnessDecoded == Returned /\ ret.outcome = "ok" /\ ret.decode

---------------------------------------------------------------------------
(* Claims on node identities, checked under SpecIds *)

\* the number a decimal text stands for
RECURSIVE ParseDec(_)
ParseDec(d) ==
    IF d = <<>> THEN 0
    ELSE 10 * ParseDec(SubSeq(d, 1, Len(d) - 1)) + (d[Len(d)] - 48)

\* the number in a node's obj_id, "obj<number>"
IdNum(i) == ParseDec(SubSeq(objs[i].obj_id, Len(S_obj) + 1, Len(objs[i].obj_id)))

IsPrefixOfId(i) == SubSeq(objs[i].obj_id, 1, Len(S_obj)) = S_obj

IdsUniqueAndIncreasing ==
    /\ \A i \in Ids : \A j \in Ids :
          i < j => (objs[i].obj_id # objs[j].obj_id /\ IdNum(i) < IdNum(j))
    /\ \A i \in Ids : IsPrefixOfId(i) /\ IdNum(i) < _obj_id

\* C11: no two nodes share an obj_id, a node's number is greater than the
\* number of every node constructed before it and smaller than the counter
\* (so no later node can get it), and _obj_id never decreases.
C11_IdsUniqueAndMonotonic ==
    /\ []IdsUniqueAndIncreasing
    /\ [][_obj_id' >= _obj_id]_vars

\* three nodes whose ids pass from three digits to four
C11_Witness == Len(objs) = 3 /\ _obj_id = 1001 /\ IdsUniqueAndIncreasing

---------------------------------------------------------------------------
(* Further claims on flattening, checked under SpecGraph *)

\* the bindings of the nodes reachable from i, as a set
ReachableStatements(i) == {LetStatement(objs[n]) : n \in Reach(i)}

\* the text that set alone determines
TextOfReachableSet(i) ==
    Join(S_nl, Append(Sorted(ReachableStatements(i)), objs[i].obj_id))

\* C13: the text get_let_statements returns is a function of the set of
\* reachable nodes with their obj_id and weld_code alone (their bindings in
\* text order, then the target's obj_id), whatever the dependency edges and
\* the order of the walk; to_weld_func wraps that same text.
C13_TextDependsOnReachableSetOnly ==
    /\ Generated => ret.text = TextOfReachableSet(ret.target)
    /\ ret.op = "to_weld_func" =>
          ret.text = Header(ret.target) \o S_sp \o TextOfReachableSet(ret.target)
                       \o S_nl \o objs[ret.target].weld_code

\* a flattening of three nodes that the walk found in another order than
\* the one they are returned in
C13_Witness ==
    /\ Generated
    /\ Cardinality(Reach(ret.target)) = 3
    /\ WalkFrom(ret.target).lets # OrderStatements(WalkFrom(ret.target).lets)
    /\ \E n \in Reach(ret.target) : objs[n].weld_code # <<>>

RECURSIVE SumDeps(_)
SumDeps(S) ==
    IF S = {} THEN 0
    ELSE LET n == CHOOSE x \in S : TRUE
         IN  Cardinality(DOMAIN objs[n].dependencies) + SumDeps(S \ {n})

\* C15, as claimed: get_let_statements returns only when the graph
\* reachable from the target is acyclic.
C15_ReturnsOnlyWhenAcyclic == Generated => Acyclic(ret.target)

\* C15, amended: get_let_statements returns on every graph, cyclic or not,
\* after one loop iteration for the target and one for every dependencies
\* entry of a reachable node, with exactly one binding per reachable node.
C15_TerminatesOnEveryGraph ==
    Generated =>
        /\ ret.pops = 1 + SumDeps(Reach(ret.target))
        /\ \A n \in Ids :
              Cardinality(Occurrences(ret.text, LetPrefix(objs[n]))) =
                  IF n \in Reach(ret.target) THEN 1 ELSE 0

\* a flattening of a graph with a cycle through two nodes
C15_Witness ==
    /\ Generated
    /\ \E a \in Reach(ret.target) : \E b \in Reach(ret.target) :
          a # b /\ b \in Deps(a) /\ a \in ReachPlus(b)

---------------------------------------------------------------------------
(* Claims on update, checked under SpecReg *)

\* what a step that is update(value), value a node, does
MergeStep ==
    LET i == ret'.target
        j == ret'.src
    IN  /\ Len(objs') = Len(objs)
        /\ DOMAIN objs'[i].context =
              DOMAIN objs[i].context \cup DOMAIN objs[j].context
        /\ \A k \in DOMAIN objs[j].context :
              objs'[i].context[k] = objs[j].context[k]
        /\ \A k \in DOMAIN objs[i].context \ DOMAIN objs[j].context :
              objs'[i].context[k] = objs[i].context[k]
        /\ objs'[i].dependencies = objs[i].dependencies
        /\ objs'[i].weld_code = objs[i].weld_code
        /\ objs'[i].argtypes = objs[i].argtypes
        /\ objs'[i].obj_id = objs[i].obj_id
        /\ \A n \in Ids \ {i} : objs'[n] = objs[n]
        /\ _registry' = _registry
        /\ _var_num' = _var_num
        /\ _obj_id' = _obj_id
        /\ ret'.outcome = "ok"

\* C17: update(value) with value a node leaves the caller's context with
\* every key of value's context, holding value's entry, and with the
\* caller's other entries as they were; the caller's dependencies,
\* weld_code, argtypes and obj_id, every other node (value included),
\* _registry, _var_num and _obj_id are unchanged.
C17_UpdateWithNodeMergesContextOnly ==
    [][ret'.op = "update_obj" => MergeStep]_vars

\* after update(value): the caller kept an entry value does not have, and
\* value has an explicit type the caller was not given
C17_Witness ==
    /\ ret.op = "update_obj"
    /\ ret.src # ret.target
    /\ objs[ret.src].context # EmptyDict
    /\ DOMAIN objs[ret.src].context \subseteq DOMAIN objs[ret.target].context
    /\ DOMAIN objs[ret.target].context # DOMAIN objs[ret.src].context
    /\ DOMAIN objs[ret.src].argtypes # {}
    /\ objs[ret.target].argtypes = EmptyDict

\* every context holds a value under the name of its canonical form
OneEntryPerCanonicalForm ==
    \A i \in Ids : \A k \in DOMAIN objs[i].context :
        LET f == Str(objs[i].context[k])
        IN  f \in DOMAIN _registry /\ _registry[f] = k

\* what update(value), value a literal, has returned and left behind
LastWrittenIsHeld ==
    ret.op = "update" =>
        /\ ret.outcome = "ok"
        /\ ret.text \in DOMAIN objs[ret.target].context
        /\ objs[ret.target].context[ret.text] = ret.arg
        /\ \A p \in issued : p[1] = Str(ret.arg) => p[2] = ret.text

\* what a step that is update(value), value a literal, does to the context
OverwriteStep ==
    LET i == ret'.target
        name == ret'.text
    IN  /\ DOMAIN objs'[i].context = DOMAIN objs[i].context \cup {name}
        /\ objs'[i].context[name] = ret'.arg
        /\ \A k \in DOMAIN objs[i].context \ {name} :
              objs'[i].context[k] = objs[i].context[k]
        /\ \A k \in DOMAIN objs'[i].context :
              Str(objs'[i].context[k]) = Str(ret'.arg) => k = name

\* C18: values of one canonical form are registered under one name without
\* an error; a context holds one entry for it, the value written last (by
\* update with a literal, or by a merge), and not the value held before.
C18_SameFormSharesOneEntry ==
    /\ [](OneEntryPerCanonicalForm /\ LastWrittenIsHeld)
    /\ [][ret'.op = "update" => OverwriteStep]_vars

\* update("5") has returned the name under which another node holds 5
C18_Witness ==
    /\ ret.op = "update"
    /\ \E j \in Ids \ {ret.target} :
          /\ ret.text \in DOMAIN objs[j].context
          /\ objs[j].context[ret.text] # ret.arg
          /\ Str(objs[j].context[ret.text]) = Str(ret.arg)

---------------------------------------------------------------------------
(* Claims on the registry's history, checked under SpecGen *)

\* C14: once a canonical form is mapped to a name it stays mapped to that
\* name, the set of registered forms never shrinks, and _var_num never
\* decreases.
C14_RegisteredNameIsStable ==
    [][/\ \A s \in DOMAIN _registry :
             s \in DOMAIN _registry' /\ _registry'[s] = _registry[s]
       /\ _var_num' >= _var_num]_vars

\* what does hold: forms are never unregistered and _var_num never decreases
C14_RegistryNeverShrinks ==
    [][/\ DOMAIN _registry \subseteq DOMAIN _registry'
       /\ _var_num' >= _var_num]_vars

---------------------------------------------------------------------------
(* Claims on what flattening and evaluating leave alone, under SpecFrame *)

\* a step of get_let_statements, generate, to_weld_func or evaluate
ReadingStep ==
    \/ ret'.op \in {"generate", "to_weld_func", "evaluate"}
    \/ ev' # ev

\* C12: get_let_statements, generate, to_weld_func and evaluate (returning,
\* or raising after compiling or after running) leave every node's fields,
\* _registry, _var_num and _obj_id as they were.
C12_ReadingLeavesFrontEndUnchanged ==
    [][ReadingStep => UNCHANGED <<objs, _var_num, _obj_id, _registry>>]_vars

\* evaluate has raised after running, on a node with inputs and dependencies
C12_Witness ==
    /\ ret.op = "evaluate"
    /\ ret.outcome = "error"
    /\ ret.runs = 1
    /\ objs[ret.target].context # EmptyDict
    /\ objs[ret.target].dependencies # EmptyDict
    /\ _registry # EmptyDict

---------------------------------------------------------------------------
(* Claims on concurrent use, checked under SpecThreads *)

TwoFormsShareName ==
    \E a \in DOMAIN _registry : \E b \in DOMAIN _registry :
        a # b /\ _registry[a] = _registry[b]

FormHandedTwoNames ==
    \E p \in issued : \E q \in issued : p[1] = q[1] /\ p[2] # q[2]

TwoNodesShareId ==
    \E i \in Ids : \E j \in Ids : i # j /\ objs[i].obj_id = objs[j].obj_id

\* C16: nothing synchronizes the threads: a thread inside __init__ or
\* update(literal) can always take its next read or write, whatever the
\* other thread is doing; interleaved so, the threads reach a state in
\* which uniqueness is broken (C16_Witness).
C16_NoThreadEverWaits ==
    \A t \in ThreadIds : threads[t].pc # "idle" => ENABLED ThreadStep(t)

\* both threads have returned; two forms share a name, a form was handed
\* two names, and two nodes share an obj_id
C16_Witness ==
    /\ \A t \in ThreadIds : threads[t].pc = "idle"
    /\ TwoFormsShareName
    /\ FormHandedTwoNames
    /\ TwoNodesShareId

============================================================================
